---- MODULE Spec2Model ----
(***************************************************************************)
(* A model of dcr.go: the selection engine (filterByEnvironment,           *)
(* filterByTag, filterServers over Go slices that share a backing array)   *)
(* and the list / exec commands of main (getServers, the sequential        *)
(* dispatch loop around execCommand, the exit status of the process).      *)
(*                                                                         *)
(* A Go string is a sequence of one-character strings, so that             *)
(* strings.HasPrefix, strings.TrimPrefix and strings.Split are computed.   *)
(* A Go slice is a record [arr, len]: arr is the content of the backing    *)
(* array it points into (offset 0), len its length.  Two slices with the   *)
(* same backing array see each other's writes.                             *)
(***************************************************************************)
EXTENDS Integers, Sequences, FiniteSets, TLC

\* -------------------------------------------------------------- bounds

\* The longest inventory (number of servers in the inventory file).
MaxServers == 3

\* The most tag expressions handed to filterServers by the selection harness.
MaxExprs == 2

\* ------------------------------------------------------------- strings

Str0 == <<>>
bang == <<"!">>
db == <<"d">>
web == <<"w">>
prod == <<"p">>
PROD == <<"P">>
staging == <<"s">>

\* strings.HasPrefix(s, prefix)
HasPrefix(s, prefix) ==
    /\ Len(s) >= Len(prefix)
    /\ SubSeq(s, 1, Len(prefix)) = prefix

\* strings.TrimPrefix(s, prefix): s without the prefix, once, when it has it
TrimPrefix(s, prefix) ==
    IF HasPrefix(s, prefix) THEN SubSeq(s, Len(prefix) + 1, Len(s)) ELSE s

\* strings.Split(s, ","): the fields between the commas; one field, s itself,
\* when s holds no comma (so Split("", ",") is [""], of length 1).
RECURSIVE SplitFrom(_, _, _)
SplitFrom(s, i, field) ==
    IF i > Len(s) THEN <<field>>
    ELSE IF s[i] = "," THEN <<field>> \o SplitFrom(s, i + 1, Str0)
    ELSE SplitFrom(s, i + 1, Append(field, s[i]))

Split(s) == SplitFrom(s, 1, Str0)

\* ------------------------------------------------------ inventory model

\* type Server struct { Name; Environment; Tags }
Server(name, environment, tags) ==
    [Name |-> name, Environment |-> environment, Tags |-> tags]

\* The servers an inventory file may list: the spec's scenario (A, B, C), a
\* second server named A whose environment differs in case only and whose
\* tags hold a "!"-prefixed tag and the empty tag, and an unclassified server
\* without tags.
Catalogue ==
    { Server("A", prod, <<db>>),
      Server("B", staging, <<web>>),
      Server("C", prod, <<web, db>>),
      Server("A", PROD, <<bang \o db, Str0>>),
      Server("D", Str0, <<>>) }

RECURSIVE SeqsUpTo(_, _)
SeqsUpTo(S, n) ==
    IF n = 0 THEN {<<>>}
    ELSE LET shorter == SeqsUpTo(S, n - 1)
         IN  shorter \cup {Append(q, x) : q \in shorter, x \in S}

\* type Servers []Server, as decoded from the inventory file
Inventories == SeqsUpTo(Catalogue, MaxServers)

Environments == {Str0, prod, PROD, staging}

\* The tag expressions tried: the empty one, two tags, a negated tag, and a
\* negated expression for a tag that itself starts with "!".
TagExpressions == {Str0, db, web, bang \o db, bang \o bang \o db}

\* A slice over the backing array arr, of length len.
Slice(arr, len) == [arr |-> arr, len |-> len]

\* The elements a slice holds, read through its backing array.
Elems(s) == SubSeq(s.arr, 1, s.len)

\* ---------------------------------------------------- selection engine

\* contains with the return of false moved into the loop: only the first tag
\* is compared.
containsFirstOnly(tags, expectedTag) ==
    Len(tags) > 0 /\ tags[1] = expectedTag

\* func contains(tags []string, expectedTag string) bool
contains(tags, expectedTag) ==
    \E i \in 1..Len(tags) : tags[i] = expectedTag

\* The loop of filterByEnvironment: filtered := servers[:0] shares the
\* backing array, so append(filtered, server) writes arr[j + 1] in place.
RECURSIVE envLoop(_, _, _, _, _)
envLoop(arr, n, i, j, environment) ==
    IF i > n THEN Slice(arr, j)
    ELSE LET server == arr[i]
         IN  IF server.Environment = environment
             THEN envLoop([arr EXCEPT ![j + 1] = server], n, i + 1, j + 1, environment)
             ELSE envLoop(arr, n, i + 1, j, environment)

\* strings.ToLower, on the environment labels of the model.
ToLower(s) == IF s = PROD THEN prod ELSE s

RECURSIVE envLoopFold(_, _, _, _, _)
envLoopFold(arr, n, i, j, environment) ==
    IF i > n THEN Slice(arr, j)
    ELSE LET server == arr[i]
         IN  IF ToLower(server.Environment) = ToLower(environment)
             THEN envLoopFold([arr EXCEPT ![j + 1] = server], n, i + 1, j + 1, environment)
             ELSE envLoopFold(arr, n, i + 1, j, environment)

\* filterByEnvironment comparing with strings.EqualFold instead of ==.
filterByEnvironmentFold(servers, environment) ==
    envLoopFold(servers.arr, servers.len, 1, 0, environment)

\* func filterByEnvironment(servers Servers, environment string) Servers
filterByEnvironment(servers, environment) ==
    envLoop(servers.arr, servers.len, 1, 0, environment)

\* The test of filterByTag without the strings.TrimPrefix: a negated
\* expression is looked up with its "!".
tagPassesNoTrim(server, tag) ==
    IF HasPrefix(tag, bang)
    THEN ~contains(server.Tags, tag)
    ELSE contains(server.Tags, tag)

\* The test filterByTag applies to one server.
tagPasses(server, tag) ==
    IF HasPrefix(tag, bang)
    THEN ~contains(server.Tags, TrimPrefix(tag, bang))
    ELSE contains(server.Tags, tag)

\* The loop of filterByTag, in place like envLoop.
RECURSIVE tagLoop(_, _, _, _, _)
tagLoop(arr, n, i, j, tag) ==
    IF i > n THEN Slice(arr, j)
    ELSE LET server == arr[i]
         IN  IF tagPasses(server, tag)
             THEN tagLoop([arr EXCEPT ![j + 1] = server], n, i + 1, j + 1, tag)
             ELSE tagLoop(arr, n, i + 1, j, tag)

\* func filterByTag(servers Servers, tag string) Servers
filterByTag(servers, tag) ==
    tagLoop(servers.arr, servers.len, 1, 0, tag)

\* for _, tag := range tags { servers = filterByTag(servers, tag) }
RECURSIVE eachTag(_, _, _)
eachTag(servers, tags, k) ==
    IF k > Len(tags) THEN servers
    ELSE eachTag(filterByTag(servers, tags[k]), tags, k + 1)

\* func filterServers(servers Servers, environment string, tags []string) Servers
filterServers(servers, environment, tags) ==
    LET byEnv == IF environment # Str0
                 THEN filterByEnvironment(servers, environment)
                 ELSE servers
    IN  IF Len(tags) # 0 THEN eachTag(byEnv, tags, 1) ELSE byEnv

\* ------------------------------------------------- selection harness
\* A caller that builds an inventory, keeps its slice, and calls one of the
\* three selection functions on it once.

VARIABLES
    given,      \* the servers the caller put in its inventory slice
    heap,       \* the backing array of the caller's slice, as it is now
    fn,         \* the function called, "none" before the call
    envArg,     \* the environment argument of the call
    tagArg,     \* the tag argument: a string (filterByTag) or a sequence of strings
    result      \* the slice the call returned

selVars == <<given, heap, fn, envArg, tagArg, result>>

\* The tag-expression sequences the harness passes to filterServers.
TagArgs == SeqsUpTo(TagExpressions, MaxExprs)

\* What the caller reads through its own slice after the call.
CallerView == SubSeq(heap, 1, Len(given))

SelIdle ==
    /\ given = <<>>
    /\ heap = <<>>
    /\ fn = "idle"
    /\ envArg = Str0
    /\ tagArg = <<>>
    /\ result = Slice(<<>>, 0)

SelInit ==
    /\ given \in Inventories
    /\ heap = given
    /\ fn = "none"
    /\ envArg = Str0
    /\ tagArg = <<>>
    /\ result = Slice(given, Len(given))

CallFilterByEnvironment ==
    /\ fn = "none"
    /\ \E environment \in Environments :
          LET r == filterByEnvironment(Slice(heap, Len(given)), environment)
          IN  /\ fn' = "filterByEnvironment"
              /\ envArg' = environment
              /\ result' = r
              /\ heap' = r.arr
    /\ UNCHANGED <<given, tagArg>>

CallFilterByTag ==
    /\ fn = "none"
    /\ \E tag \in TagExpressions :
          LET r == filterByTag(Slice(heap, Len(given)), tag)
          IN  /\ fn' = "filterByTag"
              /\ tagArg' = tag
              /\ result' = r
              /\ heap' = r.arr
    /\ UNCHANGED <<given, envArg>>

CallFilterServers ==
    /\ fn = "none"
    /\ \E environment \in Environments, tags \in TagArgs :
          LET r == filterServers(Slice(heap, Len(given)), environment, tags)
          IN  /\ fn' = "filterServers"
              /\ envArg' = environment
              /\ tagArg' = tags
              /\ result' = r
              /\ heap' = r.arr
    /\ UNCHANGED given

\* ------------------------------------------------------ the program run

VARIABLES
    pc,            \* where main is: start, filter, render, loop, wait, done, exited
    command,       \* "list" or "exec"
    fileReadable,  \* whether ioutil.ReadFile(configFile) succeeds
    fileServers,   \* what the inventory file decodes to
    environment,   \* the --env flag
    tags,          \* the --tags flag, as typed
    servers,       \* the Action's variable servers, a slice
    idx,           \* the position of the exec loop in servers, from 1
    helper,        \* the pmrun subprocess: NoHelper, Running, Hung or how it ended
    dispatched,    \* the servers pmrun was started for, in order
    ended,         \* how each waited-for helper ended, in order
    stdout,        \* what the process printed, one event per Print call
    stderr,        \* what log.Fatalf printed
    exitStatus     \* the exit status of the process, -1 while it runs

runVars == <<pc, command, fileReadable, fileServers, environment, tags, servers,
             idx, helper, dispatched, ended, stdout, stderr, exitStatus>>

vars == <<selVars, runVars>>

comma == <<",">>

\* The --tags values tried: none, one tag, one negated tag, two positive
\* tags, a positive and a negated tag.
TagInputs ==
    { Str0, db, bang \o web, db \o comma \o web, web \o comma \o bang \o db }

\* The exit statuses a helper that exits may report.
ExitStatuses == {0, 2}

\* How a started helper ends and what er := cmd.Wait() is for it: nil after
\* a normal exit with status 0, an *exec.ExitError carrying the wait status
\* after any other end, or an error of another type (the copy of an output
\* stream into its buffer failed after the helper had exited with status 0).
WaitOutcomes ==
    { [end |-> "exit", status |-> s, err |-> IF s = 0 THEN "nil" ELSE "ExitError"] :
          s \in ExitStatuses }
    \cup { [end |-> "signal", status |-> 0, err |-> "ExitError"],
           [end |-> "exit", status |-> 0, err |-> "other"] }

\* The helper of the current iteration before it has ended.
NoHelper == [end |-> "none", status |-> 0, err |-> "nil"]
Running == [end |-> "running", status |-> 0, err |-> "nil"]
Hung == [end |-> "hung", status |-> 0, err |-> "nil"]

\* syscall.WaitStatus.ExitStatus(): the status of an exited process, else -1
ExitStatusOf(o) == IF o.end = "exit" THEN o.status ELSE -1

\* execCommand after cmd.Wait(): exit := 0, replaced only for an ExitError
exitCodeOf(o) == IF o.err = "ExitError" THEN ExitStatusOf(o) ELSE 0

\* func colorizeExitCode(exitCode int) string: white on green, red unless 0
colorizeExitCode(exitCode) ==
    [text |-> exitCode, fg |-> "white", bg |-> IF exitCode # 0 THEN "red" ELSE "green"]

RunIdle ==
    /\ pc = "idle"
    /\ command = "none"
    /\ fileReadable = FALSE
    /\ fileServers = <<>>
    /\ environment = Str0
    /\ tags = Str0
    /\ servers = Slice(<<>>, 0)
    /\ idx = 0
    /\ helper = NoHelper
    /\ dispatched = <<>>
    /\ ended = <<>>
    /\ stdout = <<>>
    /\ stderr = <<>>
    /\ exitStatus = -1

RunInit ==
    /\ pc = "start"
    /\ command \in {"list", "exec"}
    /\ fileReadable \in BOOLEAN
    /\ fileServers \in (IF fileReadable THEN Inventories ELSE {<<>>})
    /\ environment \in Environments
    /\ tags \in TagInputs
    /\ servers = Slice(<<>>, 0)
    /\ idx = 0
    /\ helper = NoHelper
    /\ dispatched = <<>>
    /\ ended = <<>>
    /\ stdout = <<>>
    /\ stderr = <<>>
    /\ exitStatus = -1

\* getServers without the os.Exit(1): the error is printed and the run goes
\* on with no servers.
GetServersNoExit ==
    /\ pc = "start"
    /\ IF fileReadable
       THEN /\ servers' = Slice(fileServers, Len(fileServers))
            /\ UNCHANGED stdout
       ELSE /\ stdout' = Append(stdout, [kind |-> "error"])
            /\ servers' = Slice(<<>>, 0)
    /\ pc' = "filter"
    /\ UNCHANGED <<command, fileReadable, fileServers, environment, tags, idx,
                   helper, dispatched, ended, stderr, exitStatus>>

\* servers := getServers(configFile)
GetServers ==
    /\ pc = "start"
    /\ IF fileReadable
       THEN /\ servers' = Slice(fileServers, Len(fileServers))
            /\ pc' = "filter"
            /\ UNCHANGED <<stdout, exitStatus>>
       ELSE /\ stdout' = Append(stdout, [kind |-> "error"])
            /\ pc' = "exited"
            /\ exitStatus' = 1
            /\ UNCHANGED servers
    /\ UNCHANGED <<command, fileReadable, fileServers, environment, tags, idx,
                   helper, dispatched, ended, stderr>>

\* servers = filterServers(servers, environment, strings.Split(tags, ","))
FilterServers ==
    /\ pc = "filter"
    /\ servers' = filterServers(servers, environment, Split(tags))
    /\ pc' = IF command = "list" THEN "render" ELSE "loop"
    /\ idx' = 1
    /\ UNCHANGED <<command, fileReadable, fileServers, environment, tags,
                   helper, dispatched, ended, stdout, stderr, exitStatus>>

\* formatList(servers, format); fmt.Println(""); return nil
FormatList ==
    /\ pc = "render"
    /\ stdout' = stdout \o << [kind |-> "selection", servers |-> Elems(servers)],
                             [kind |-> "blank"] >>
    /\ pc' = "done"
    /\ exitStatus' = 0
    /\ UNCHANGED <<command, fileReadable, fileServers, environment, tags, servers,
                   idx, helper, dispatched, ended, stderr>>

\* execCommand without the cmd.Wait(): the helper is started and the loop
\* moves on to the next server at once.
CmdStartNoWait ==
    /\ pc = "loop"
    /\ idx <= servers.len
    /\ \E started \in BOOLEAN :
          IF started
          THEN /\ dispatched' = Append(dispatched, servers.arr[idx])
               /\ idx' = idx + 1
               /\ UNCHANGED <<pc, stderr, exitStatus>>
          ELSE /\ stderr' = Append(stderr, [kind |-> "cmd.Start"])
               /\ pc' = "exited"
               /\ exitStatus' = 1
               /\ UNCHANGED <<idx, dispatched>>
    /\ UNCHANGED <<command, fileReadable, fileServers, environment, tags, servers,
                   helper, ended, stdout>>

\* execCommand with log.Printf for log.Fatalf: a launch failure is logged and
\* the loop goes on with the next server.
CmdStartLogOnly ==
    /\ pc = "loop"
    /\ idx <= servers.len
    /\ \E started \in BOOLEAN :
          IF started
          THEN /\ helper' = Running
               /\ dispatched' = Append(dispatched, servers.arr[idx])
               /\ pc' = "wait"
               /\ UNCHANGED <<idx, stderr>>
          ELSE /\ stderr' = Append(stderr, [kind |-> "cmd.Start"])
               /\ idx' = idx + 1
               /\ UNCHANGED <<pc, helper, dispatched>>
    /\ UNCHANGED <<command, fileReadable, fileServers, environment, tags, servers,
                   ended, stdout, exitStatus>>

\* execCommand up to cmd.Start(): the helper runs, or log.Fatalf ends the process
CmdStart ==
    /\ pc = "loop"
    /\ idx <= servers.len
    /\ \E started \in BOOLEAN :
          IF started
          THEN /\ helper' = Running
               /\ dispatched' = Append(dispatched, servers.arr[idx])
               /\ pc' = "wait"
               /\ UNCHANGED <<stderr, exitStatus>>
          ELSE /\ stderr' = Append(stderr, [kind |-> "cmd.Start"])
               /\ pc' = "exited"
               /\ exitStatus' = 1
               /\ UNCHANGED <<helper, dispatched>>
    /\ UNCHANGED <<command, fileReadable, fileServers, environment, tags, servers,
                   idx, ended, stdout>>

\* The helper ends, in one of the ways cmd.Wait can report.
HelperEnds ==
    /\ helper = Running
    /\ \E o \in WaitOutcomes : helper' = o
    /\ UNCHANGED <<pc, command, fileReadable, fileServers, environment, tags,
                   servers, idx, dispatched, ended, stdout, stderr, exitStatus>>

\* The helper turns out never to end (a hung remote command).
HelperHangs ==
    /\ helper = Running
    /\ helper' = Hung
    /\ UNCHANGED <<pc, command, fileReadable, fileServers, environment, tags,
                   servers, idx, dispatched, ended, stdout, stderr, exitStatus>>

\* cmd.Wait() returns, execCommand returns, and the loop body prints the report
CmdWait ==
    /\ pc = "wait"
    /\ helper \in WaitOutcomes
    /\ LET exitCode == exitCodeOf(helper)
       IN  stdout' = Append(stdout, [kind |-> "report",
                                     server |-> servers.arr[idx],
                                     exitCode |-> exitCode,
                                     colour |-> colorizeExitCode(exitCode)])
    /\ ended' = Append(ended, helper)
    /\ helper' = NoHelper
    /\ idx' = idx + 1
    /\ pc' = "loop"
    /\ UNCHANGED <<command, fileReadable, fileServers, environment, tags, servers,
                   dispatched, stderr, exitStatus>>

\* The report events of stdout, in the order printed.
Reports == SelectSeq(stdout, LAMBDA e : e.kind = "report")

\* The end of the exec Action returning an error (which app.Run turns into a
\* failure status) when some helper reported a non-zero exit code.
ExecReturnPropagate ==
    /\ pc = "loop"
    /\ idx > servers.len
    /\ stdout' = Append(stdout, [kind |-> "blank"])
    /\ pc' = "done"
    /\ exitStatus' = IF \E k \in 1..Len(Reports) : Reports[k].exitCode # 0
                     THEN 1 ELSE 0
    /\ UNCHANGED <<command, fileReadable, fileServers, environment, tags, servers,
                   idx, helper, dispatched, ended, stderr>>

\* after the loop: fmt.Println(""); return nil
ExecReturn ==
    /\ pc = "loop"
    /\ idx > servers.len
    /\ stdout' = Append(stdout, [kind |-> "blank"])
    /\ pc' = "done"
    /\ exitStatus' = 0
    /\ UNCHANGED <<command, fileReadable, fileServers, environment, tags, servers,
                   idx, helper, dispatched, ended, stderr>>

\* ------------------------------------------------------- specifications

Init == SelIdle /\ RunInit

Next ==
    \/ GetServers /\ UNCHANGED selVars
    \/ FilterServers /\ UNCHANGED selVars
    \/ FormatList /\ UNCHANGED selVars
    \/ CmdStart /\ UNCHANGED selVars
    \/ HelperEnds /\ UNCHANGED selVars
    \/ HelperHangs /\ UNCHANGED selVars
    \/ CmdWait /\ UNCHANGED selVars
    \/ ExecReturn /\ UNCHANGED selVars

Spec == Init /\ [][Next]_vars

InitSelect == SelInit /\ RunIdle

NextSelect ==
    \/ CallFilterByEnvironment /\ UNCHANGED runVars
    \/ CallFilterByTag /\ UNCHANGED runVars
    \/ CallFilterServers /\ UNCHANGED runVars

SpecSelect == InitSelect /\ [][NextSelect]_vars

\* -------------------------------------------------------------- claims

\* The set of tags a server carries.
TagSet(server) == {server.Tags[i] : i \in 1..Len(server.Tags)}

\* Whether a server satisfies a tag expression: "!" + t asks for t to be
\* absent, any other expression t asks for t to be present.
Satisfies(server, x) ==
    IF Len(x) > 0 /\ x[1] = "!"
    THEN Tail(x) \notin TagSet(server)
    ELSE x \in TagSet(server)

\* The servers of the caller's inventory that carry tag t, in order.
Carrying(t) == SelectSeq(given, LAMBDA s : t \in TagSet(s))

\* The servers of the caller's inventory that do not carry tag t, in order.
NotCarrying(t) == SelectSeq(given, LAMBDA s : t \notin TagSet(s))

\* The tags some server of the catalogue carries.
CarriedTags == UNION {TagSet(s) : s \in Catalogue}

\* The call filterServers(I, "", tagArg) has returned.
SelectedByTags == fn = "filterServers" /\ envArg = Str0

\* C1: with the tag sequence [""] that the callers obtain from an empty tag
\* input, filterServers filters by environment only: it returns what it
\* returns for the empty tag sequence.
C1_EmptyTagInputIsNoFilter ==
    (fn = "filterServers" /\ tagArg = <<Str0>>) =>
        Elems(result) = Elems(filterServers(Slice(given, Len(given)), envArg, <<>>))

\* C2: after filterByEnvironment, filterByTag or filterServers has returned,
\* the caller's inventory slice holds the same servers at the same positions
\* as before the call.
C2_InputNotMutated ==
    fn \in {"filterByEnvironment", "filterByTag", "filterServers"} =>
        CallerView = given

\* C3: filterServers(I, e, []) with e non-empty returns the servers of I whose
\* environment is exactly e, each as often as in I and in the order of I;
\* filterServers(I, "", []) returns I.
C3_EnvironmentSelection ==
    (fn = "filterServers" /\ tagArg = <<>>) =>
        IF envArg # Str0
        THEN Elems(result) = SelectSeq(given, LAMBDA s : s.Environment = envArg)
        ELSE Elems(result) = given

C3_Witness ==
    /\ fn = "filterServers"
    /\ tagArg = <<>>
    /\ envArg = prod
    /\ Len(given) = 3
    /\ given[1].Environment = PROD
    /\ given[2] = given[3]
    /\ result.len = 2

\* The tag sequence xs reordered by the permutation p of its positions.
Reordered(xs, p) == [k \in 1..Len(xs) |-> xs[p[k]]]

\* C4: filterServers(I, "", [x1..xn]) returns, in the order of I, exactly the
\* servers of I that satisfy every xi, and returns the same servers for every
\* reordering of the expressions.
C4_TagExpressionsConjoin ==
    SelectedByTags =>
        /\ Elems(result) =
              SelectSeq(given, LAMBDA s : \A k \in 1..Len(tagArg) : Satisfies(s, tagArg[k]))
        /\ \A p \in Permutations(1..Len(tagArg)) :
              Elems(filterServers(Slice(given, Len(given)), Str0, Reordered(tagArg, p)))
                  = Elems(result)

C4_Witness ==
    /\ SelectedByTags
    /\ tagArg = <<web, bang \o db>>
    /\ Len(given) = 3
    /\ result.len = 1
    /\ \E i \in 1..3 : web \in TagSet(given[i]) /\ db \in TagSet(given[i])

\* What C5 says of one tag t.
TagAndComplement(t) ==
    /\ tagArg = <<t>> => Elems(result) = Carrying(t)
    /\ tagArg = <<bang \o t>> => Elems(result) = NotCarrying(t)
    /\ tagArg = <<t, bang \o t>> => Elems(result) = <<>>

\* C5 as stated: for every non-empty tag t a server may carry,
\* filterServers(I, "", [t]) returns the servers carrying t,
\* filterServers(I, "", ["!" + t]) the servers not carrying t, and
\* filterServers(I, "", [t, "!" + t]) no server.
C5_AnyCarriedTag ==
    SelectedByTags =>
        \A t \in CarriedTags \ {Str0} : TagAndComplement(t)

\* C5 amended: the same for every non-empty tag t that does not start with "!".
C5_TagNotStartingWithBang ==
    SelectedByTags =>
        \A t \in {u \in CarriedTags \ {Str0} : u[1] # "!"} : TagAndComplement(t)

C5_Witness ==
    /\ SelectedByTags
    /\ tagArg = <<db, bang \o db>>
    /\ Len(given) = 3
    /\ Len(Carrying(db)) = 2
    /\ result.len = 0

\* The servers reported, in the order of their reports.
Reported == [k \in 1..Len(Reports) |-> Reports[k].server]

\* s is the start of t.
IsPrefix(s, t) == Len(s) <= Len(t) /\ s = SubSeq(t, 1, Len(s))

\* C6: the helpers are started for the servers of the post-filter inventory in
\* its order, one per position, and so are the reports; a helper is started
\* only when every earlier helper has ended and been reported, so that while
\* a helper runs or hangs no later server is dispatched; and a run that ends
\* normally has dispatched and reported every server of the inventory.
C6_SequentialDispatch ==
    /\ IsPrefix(dispatched, Elems(servers))
    /\ IsPrefix(Reported, dispatched)
    /\ Len(dispatched) <= Len(Reported) + 1
    /\ helper # NoHelper => pc = "wait" /\ Len(dispatched) = Len(Reported) + 1
                            /\ Len(dispatched) = idx
    /\ (pc = "done" /\ command = "exec") =>
          dispatched = Elems(servers) /\ Reported = Elems(servers)

C6_Witness ==
    /\ pc = "done"
    /\ command = "exec"
    /\ Len(dispatched) = 3
    /\ dispatched[1].Name = dispatched[2].Name
    /\ Len(Reports) = 3

\* A launch failure has been logged.
LaunchFailed == stderr # <<>>

\* C7: once a helper could not be started the process has exited with a
\* non-zero status, with reports for exactly the servers before the failing
\* one and no helper started for it or any later one; the failing step leaves
\* what was printed as it was, and nothing happens after the exit.
C7_LaunchFailureAborts ==
    /\ [](LaunchFailed =>
            /\ pc = "exited"
            /\ exitStatus # 0
            /\ Len(dispatched) = idx - 1
            /\ Reported = SubSeq(Elems(servers), 1, idx - 1))
    /\ [][(LaunchFailed' /\ ~LaunchFailed) => stdout' = stdout]_vars
    /\ [][pc # "exited"]_vars

C7_Witness ==
    /\ LaunchFailed
    /\ pc = "exited"
    /\ idx = 2
    /\ servers.len = 3
    /\ Len(Reports) = 1

\* C8: a helper that exits with a non-zero status has that status reported;
\* the process exits with a non-zero status only when the inventory file was
\* unreadable or a launch failed; and a run that goes through ends with
\* status 0 after a report for every selected server, whatever the codes.
C8_RemoteFailureNotFatal ==
    /\ Len(Reports) = Len(ended)
    /\ \A k \in 1..Len(ended) :
          (ended[k].end = "exit" /\ ended[k].status # 0) =>
              /\ Reports[k].exitCode = ended[k].status
              /\ Reports[k].colour.bg = "red"
    /\ exitStatus \notin {-1, 0} => (~fileReadable \/ LaunchFailed)
    /\ (pc = "exited") = (exitStatus \notin {-1, 0})
    /\ pc = "done" => exitStatus = 0
    /\ (pc = "done" /\ command = "exec") => Len(Reports) = servers.len
    /\ (pc = "loop" /\ idx <= servers.len) => exitStatus = -1

C8_Witness ==
    /\ pc = "done"
    /\ exitStatus = 0
    /\ Len(ended) = 3
    /\ ended[1].end = "exit"
    /\ ended[1].status = 2
    /\ Reports[1].exitCode = 2
    /\ Reports[3].exitCode = 0

\* C9: when the inventory file cannot be read, in list and in exec mode, the
\* run is either still before getServers or has exited with a non-zero
\* status; nothing is rendered, reported or dispatched, and no helper runs.
C9_UnreadableInventoryAborts ==
    ~fileReadable =>
        /\ pc = "start" \/ (pc = "exited" /\ exitStatus # 0)
        /\ \A k \in 1..Len(stdout) : stdout[k].kind = "error"
        /\ dispatched = <<>>
        /\ helper = NoHelper

C9_Witness ==
    /\ ~fileReadable
    /\ command = "exec"
    /\ pc = "exited"
    /\ exitStatus = 1
    /\ Len(stdout) = 1

\* C10: the exit code reported for a launched helper is its exit status when
\* it exited, it is 0 (printed on green) only when cmd.Wait returned no error
\* after a normal exit with status 0, and it is non-zero (printed on red) for
\* every other end of the wait.
C10_ExitCodeFaithful ==
    /\ Len(Reports) = Len(ended)
    /\ \A k \in 1..Len(ended) :
          /\ (Reports[k].exitCode = 0) =
                (ended[k].end = "exit" /\ ended[k].status = 0 /\ ended[k].err = "nil")
          /\ (Reports[k].colour.bg = "green") = (Reports[k].exitCode = 0)
          /\ (ended[k].end = "exit" /\ ended[k].err # "other") =>
                Reports[k].exitCode = ended[k].status

====
